---- MODULE Spec2Model ----
(***************************************************************************)
(* A model of the virtual-wards-statistics pipeline (wardstats):           *)
(*   Fetcher     src/wardstats/extract_raw_data.py                         *)
(*   Normalizer  src/wardstats/transform_data.py                           *)
(*   Combiner    src/wardstats/combine_data.py                             *)
(*   Dashboard   src/wardstats/app.py                                      *)
(* File names, cell texts and column labels are sequences of one-character *)
(* strings, so that split, endswith, int(), strftime and sort are computed *)
(* character by character as the Python code computes them.                *)
(***************************************************************************)
EXTENDS Integers, Sequences, FiniteSets, TLC

(***************************************************************************)
(* Bounds of the model.                                                    *)
(***************************************************************************)
\* how many files the raw-data directory holds before the first command runs
MaxLocalFiles == 2
\* how many dashboard input events one session makes
MaxEvents == 2
\* how many rows a drawn sheet has
MaxRows == 3

(***************************************************************************)
(* Characters and strings.                                                 *)
(***************************************************************************)
\* the characters the model uses, in code-point order (Python compares str
\* by code point)
Alphabet ==
  << "\n", " ", "$", "%", "*", "-", ".",
     "0", "1", "2", "3", "4", "5", "6", "7", "8", "9",
     "A", "B", "C", "D", "E", "F", "G", "H", "I", "J", "K", "L", "M",
     "N", "O", "P", "Q", "R", "S", "T", "U", "V", "W", "X", "Y", "Z",
     "_",
     "a", "b", "c", "d", "e", "f", "g", "h", "i", "j", "k", "l", "m",
     "n", "o", "p", "q", "r", "s", "t", "u", "v", "w", "x", "y", "z",
     "~" >>

Ord(c) == CHOOSE i \in 1..Len(Alphabet) : Alphabet[i] = c

DigitChars == << "0", "1", "2", "3", "4", "5", "6", "7", "8", "9" >>

IsDigitChar(c) == \E i \in 1..10 : DigitChars[i] = c

DigitVal(c) == (CHOOSE i \in 1..10 : DigitChars[i] = c) - 1

\* str.endswith(suffix)
EndsWith(s, suffix) ==
  /\ Len(s) >= Len(suffix)
  /\ SubSeq(s, Len(s) - Len(suffix) + 1, Len(s)) = suffix

\* str.startswith(prefix)
StartsWith(s, prefix) ==
  /\ Len(s) >= Len(prefix)
  /\ SubSeq(s, 1, Len(prefix)) = prefix

\* str.split(sep) for a one-character separator: the list of the pieces
\* between separators (empty pieces kept)
RECURSIVE SplitOn(_, _)
SplitOn(s, sep) ==
  IF \A i \in 1..Len(s) : s[i] # sep
  THEN << s >>
  ELSE LET k == CHOOSE i \in 1..Len(s) :
                   s[i] = sep /\ \A j \in 1..(i - 1) : s[j] # sep
       IN  << SubSeq(s, 1, k - 1) >> \o SplitOn(SubSeq(s, k + 1, Len(s)), sep)

\* int(s) succeeds on the model's alphabet exactly for a non-empty run of digits
IsInt(s) == Len(s) > 0 /\ \A i \in 1..Len(s) : IsDigitChar(s[i])

RECURSIVE IntOf(_)
IntOf(s) ==
  IF Len(s) = 0 THEN 0
  ELSE 10 * IntOf(SubSeq(s, 1, Len(s) - 1)) + DigitVal(s[Len(s)])

\* the decimal text of a natural number, as str(n) / f"{n}" gives it
RECURSIVE StrOfNat(_)
StrOfNat(n) ==
  IF n < 10 THEN << DigitChars[n + 1] >>
  ELSE StrOfNat(n \div 10) \o << DigitChars[(n % 10) + 1] >>

\* zero-padding to a width, as strftime's %Y (4) and %m (2) do
RECURSIVE ZeroPad(_, _)
ZeroPad(s, width) == IF Len(s) >= width THEN s ELSE ZeroPad(<< "0" >> \o s, width)

\* s < t in Python's str order (lexicographic by code point, a proper prefix first)
RECURSIVE StrLess(_, _)
StrLess(s, t) ==
  IF Len(t) = 0 THEN FALSE
  ELSE IF Len(s) = 0 THEN TRUE
  ELSE IF s[1] # t[1] THEN Ord(s[1]) < Ord(t[1])
  ELSE StrLess(Tail(s), Tail(t))

(***************************************************************************)
(* Cells and tables.  A cell is its kind and its string form (str(cell)):  *)
(* "s" a string, "n" a number, "na" a missing value (NaN), "b" a boolean,  *)
(* "d" a timestamp.  A table (DataFrame) is its column labels and rows.    *)
(***************************************************************************)
S(t) == [k |-> "s", t |-> t]

N(t) == [k |-> "n", t |-> t]

NaN == [k |-> "na", t |-> << "n", "a", "n" >>]

NoTable == [cols |-> << >>, rows |-> << >>]

\* the outcome of a step that may raise: err = "" when it returned df
Ok(df) == [err |-> "", df |-> df]

Raise(e) == [err |-> e, df |-> NoTable]

\* the next step of a method chain: an exception raised earlier propagates
Then(r, Step(_)) == IF r.err # "" THEN r ELSE Step(r.df)

\* the subsequence of s at the positions satisfying Keep (order kept)
RECURSIVE SelectIdx(_, _, _)
SelectIdx(s, Keep(_), i) ==
  IF i > Len(s) THEN << >>
  ELSE (IF Keep(i) THEN << s[i] >> ELSE << >>) \o SelectIdx(s, Keep, i + 1)

\* position of a label among the columns, 0 when absent
ColIndex(cols, name) ==
  IF \E i \in 1..Len(cols) : cols[i] = name
  THEN CHOOSE i \in 1..Len(cols) : cols[i] = name /\ \A j \in 1..(i - 1) : cols[j] # name
  ELSE 0

HasCol(df, name) == ColIndex(df.cols, name) # 0

\* canonical column names (wardstats.config)
REGION == << "r", "e", "g", "i", "o", "n" >>

NAME == << "n", "a", "m", "e" >>

ICB_CODE == << "c", "o", "d", "e" >>

OCCUPANCY == << "o", "c", "c" >>

SUPPRESSED == << "s", "u", "p" >>

DATE == << "d", "a", "t", "e" >>

\* the labels the published sheets carry
LblRegion == << "R", "e", "g", "i", "o", "n" >>

LblName == << "N", "a", "m", "e" >>

LblCode == << "C", "o", "d", "e" >>

LblOccupancy == << "O", "c", "c" >>

\* config["COLUMN_NAMES"]: source label -> canonical name
COLUMN_NAMES(label) ==
  IF label = LblRegion THEN REGION
  ELSE IF label = LblName THEN NAME
  ELSE IF label = LblCode THEN ICB_CODE
  ELSE IF label = LblOccupancy THEN OCCUPANCY
  ELSE label

(***************************************************************************)
(* Normalizer: ExcelFileProcessor (transform_data.py).                     *)
(***************************************************************************)
\* df[col].astype(str).str[0].str.isnumeric() at row i of the last column
StartsNumeric(df, i) ==
  LET c == df.rows[i][Len(df.rows[i])]
  IN  Len(c.t) > 0 /\ IsDigitChar(c.t[1])

HasNumericRow(df) == \E i \in 1..Len(df.rows) : StartsNumeric(df, i)

\* np.where(...)[0][0]: 0-based index of the first numeric row
FirstNumericRow(df) ==
  (CHOOSE i \in 1..Len(df.rows) :
      StartsNumeric(df, i) /\ \A j \in 1..(i - 1) : ~StartsNumeric(df, j)) - 1

\* the first numeric row itself taken for the header row
IndexHeaderRowNoOffset(df) == FirstNumericRow(df)

\* _index_header_row: the row before the first numeric row (0-based; -1 when
\* the first row is numeric)
IndexHeaderRow(df) == FirstNumericRow(df) - 1

\* df[start:] for a 0-based start, negative counting from the end
SliceFrom(rows, start) ==
  LET n == Len(rows)
      s == IF start < 0 THEN (IF n + start < 0 THEN 0 ELSE n + start) ELSE start
  IN  SubSeq(rows, s + 1, n)

\* the sheet kept whole when no numeric row is found
RemoveLeadingRowsWhole(df) ==
  IF ~HasNumericRow(df) THEN Ok(df)
  ELSE Ok([cols |-> df.cols, rows |-> SliceFrom(df.rows, IndexHeaderRow(df))])

\* remove_leading_rows
RemoveLeadingRows(df) ==
  IF ~HasNumericRow(df) THEN Raise("IndexError")
  ELSE Ok([cols |-> df.cols, rows |-> SliceFrom(df.rows, IndexHeaderRow(df))])

\* promote_header_row
PromoteHeaderRow(df) ==
  IF Len(df.rows) = 0 THEN Raise("IndexError")
  ELSE Ok([cols |-> df.rows[1], rows |-> SliceFrom(df.rows, 1)])

\* remove_nan_columns: drop the columns that are NaN in every row
RemoveNanColumns(df) ==
  LET Keep(c) == ~(\A i \in 1..Len(df.rows) : df.rows[i][c].k = "na")
  IN  [cols |-> SelectIdx(df.cols, Keep, 1),
       rows |-> [i \in 1..Len(df.rows) |-> SelectIdx(df.rows[i], Keep, 1)]]

\* extract_raw_dataframe
ExtractRawDataframe(df) ==
  Then(Then(RemoveLeadingRows(df), PromoteHeaderRow),
       LAMBDA d : Ok(RemoveNanColumns(d)))

\* str.strip() for blanks and newlines
RECURSIVE Strip(_)
Strip(s) ==
  IF Len(s) = 0 THEN s
  ELSE IF s[1] \in {" ", "\n"} THEN Strip(Tail(s))
  ELSE IF s[Len(s)] \in {" ", "\n"} THEN Strip(SubSeq(s, 1, Len(s) - 1))
  ELSE s

\* i.split("\n")[0].strip(): the label without its footnote
CleanLabel(t) == Strip(SplitOn(t, "\n")[1])

\* rename_columns: the labels are the promoted row's cells
RenameColumns(df) ==
  IF \E c \in 1..Len(df.cols) : df.cols[c].k # "s" THEN Raise("AttributeError")
  ELSE Ok([cols |-> [c \in 1..Len(df.cols) |-> COLUMN_NAMES(CleanLabel(df.cols[c].t))],
           rows |-> df.rows])

\* df.drop(columns=names)
DropColumns(df, names) ==
  IF \E n \in names : ~HasCol(df, n) THEN Raise("KeyError")
  ELSE LET Keep(c) == df.cols[c] \notin names
       IN  Ok([cols |-> SelectIdx(df.cols, Keep, 1),
               rows |-> [i \in 1..Len(df.rows) |-> SelectIdx(df.rows[i], Keep, 1)]])

\* the length test off by one (>= 2)
ValidIcbCodeFromTwo(c) == c.k = "s" /\ Len(c.t) >= 2

\* df[ICB_CODE].str.len() > 2 for one cell: a non-string has no length
ValidIcbCode(c) == c.k = "s" /\ Len(c.t) > 2

\* drop_rows_with_invalid_icb_code
DropRowsWithInvalidIcbCode(df) ==
  IF ~HasCol(df, ICB_CODE) THEN Raise("KeyError")
  ELSE IF /\ Len(df.rows) > 0
          /\ \A i \in 1..Len(df.rows) : df.rows[i][ColIndex(df.cols, ICB_CODE)].k # "s"
       THEN Raise("AttributeError")  \* .str on a column that holds no string
  ELSE LET ci == ColIndex(df.cols, ICB_CODE)
           Keep(i) == ValidIcbCode(df.rows[i][ci])
       IN  Ok([cols |-> df.cols, rows |-> SelectIdx(df.rows, Keep, 1)])

\* the marker looked for at the front of the text (str[0])
IsSuppressedFirstChar(c) == Len(c.t) > 0 /\ c.t[1] = "*"

\* df[OCCUPANCY].astype(str).str[-1] == "*" for one cell
IsSuppressed(c) == Len(c.t) > 0 /\ c.t[Len(c.t)] = "*"

BoolCell(b) ==
  [k |-> "b", t |-> IF b THEN << "T", "r", "u", "e" >> ELSE << "F", "a", "l", "s", "e" >>]

\* the value written over a suppressed occupancy
FilledOccupancy == N(<< "1", ".", "0" >>)

\* the suppressed rows recombined with the whole table instead of the rest
HandleOccupancySuppressionsAll(df) ==
  IF ~HasCol(df, OCCUPANCY) THEN Raise("KeyError")
  ELSE LET oi == ColIndex(df.cols, OCCUPANCY)
           flagged == [i \in 1..Len(df.rows) |->
                         df.rows[i] \o << BoolCell(IsSuppressed(df.rows[i][oi])) >>]
           IsSp(i) == IsSuppressed(df.rows[i][oi])
           sp0 == SelectIdx(flagged, IsSp, 1)
           sp == [i \in 1..Len(sp0) |-> [sp0[i] EXCEPT ![oi] = FilledOccupancy]]
       IN  Ok([cols |-> df.cols \o << SUPPRESSED >>, rows |-> sp \o flagged])

\* handle_occupancy_suppressions
HandleOccupancySuppressions(df) ==
  IF ~HasCol(df, OCCUPANCY) THEN Raise("KeyError")
  ELSE LET oi == ColIndex(df.cols, OCCUPANCY)
           flagged == [i \in 1..Len(df.rows) |->
                         df.rows[i] \o << BoolCell(IsSuppressed(df.rows[i][oi])) >>]
           IsSp(i) == IsSuppressed(df.rows[i][oi])
           IsNsp(i) == ~IsSuppressed(df.rows[i][oi])
           sp0 == SelectIdx(flagged, IsSp, 1)
           nsp == SelectIdx(flagged, IsNsp, 1)
           sp == [i \in 1..Len(sp0) |-> [sp0[i] EXCEPT ![oi] = FilledOccupancy]]
       IN  Ok([cols |-> df.cols \o << SUPPRESSED >>, rows |-> sp \o nsp])

\* a datetime: the first day of month m of year y (err # "" when parsing raised)
NoDate == [err |-> "ValueError", y |-> 0, m |-> 0]

\* datetime.strptime(f"{year}-{month}", "%Y-%m"): %Y takes exactly four digits,
\* %m a month 1..12, and nothing may remain
Strptime_Y_m(year, month) ==
  IF Len(StrOfNat(year)) = 4 /\ month \in 1..12
  THEN [err |-> "", y |-> year, m |-> month]
  ELSE NoDate

\* get_date: year and month from the first two "_"-separated bits of the name
GetDate(raw_filename) ==
  LET bits == SplitOn(raw_filename, "_")
  IN  IF ~IsInt(bits[1]) THEN NoDate
      ELSE IF Len(bits) < 2 THEN [NoDate EXCEPT !.err = "IndexError"]
      ELSE IF ~IsInt(bits[2]) THEN NoDate
      ELSE Strptime_Y_m(IntOf(bits[1]), IntOf(bits[2]))

\* date.strftime("%Y_%m")
Strftime_Y_m(date) ==
  ZeroPad(StrOfNat(date.y), 4) \o << "_" >> \o ZeroPad(StrOfNat(date.m), 2)

\* the month written without its leading zero
StagingFilenameNoPad(date) ==
  StrOfNat(date.y) \o << "_" >> \o StrOfNat(date.m) \o << ".", "c", "s", "v" >>

\* __init__: self.staging_filename
StagingFilename(date) == Strftime_Y_m(date) \o << ".", "c", "s", "v" >>

\* the timestamp cell of a date; its text is what to_csv writes (ISO, day 01)
DateCell(date) ==
  [k |-> "d",
   t |-> ZeroPad(StrOfNat(date.y), 4) \o << "-" >> \o ZeroPad(StrOfNat(date.m), 2)
           \o << "-", "0", "1" >>]

\* add_date_column: df.insert(0, DATE, self.date)
AddDateColumn(df, date) ==
  [cols |-> << DATE >> \o df.cols,
   rows |-> [i \in 1..Len(df.rows) |-> << DateCell(date) >> \o df.rows[i]]]

\* df.drop(columns=[REGION, NAME])
DropRegionAndName(df) == DropColumns(df, {REGION, NAME})

\* transform_dataframe
TransformDataframe(df, date) ==
  Then(Then(Then(Then(Then(ExtractRawDataframe(df),
                           RenameColumns),
                      DropRegionAndName),
                 DropRowsWithInvalidIcbCode),
            HandleOccupancySuppressions),
       LAMBDA d : Ok(AddDateColumn(d, date)))

\* df.to_csv(path, index=False): the labels and every cell's text, a missing
\* value written as the empty field
ToCsv(df) ==
  [cols |-> df.cols,
   rows |-> [i \in 1..Len(df.rows) |->
               [c \in 1..Len(df.rows[i]) |->
                  IF df.rows[i][c].k = "na" THEN << >> ELSE df.rows[i][c].t]]]

XlsxExt == << ".", "x", "l", "s", "x" >>

\* the test without the lock-file marker
IsProcessableNoLock(raw_filename) == EndsWith(raw_filename, XlsxExt)

\* process_file's test: a spreadsheet that is not an office lock file
IsProcessable(raw_filename) ==
  EndsWith(raw_filename, XlsxExt) /\ ~StartsWith(raw_filename, << "~" >>)

(***************************************************************************)
(* The workbooks of the model: what pd.read_excel loads from sheet 1 (the  *)
(* sheet's first row becomes the labels, the rest the rows).               *)
(***************************************************************************)
\* November 2023: a title row, a note row, the header row (the occupancy label
\* carries a footnote), the England row and two regions, one suppressed
SheetNov23 ==
  [cols |-> << S(<< "T" >>), S(<< "U", "1" >>), S(<< "U", "2" >>), S(<< "U", "3" >>) >>,
   rows |-> <<
     << S(<< "N", "o", "t", "e" >>),
        NaN,
        NaN,
        NaN >>,
     << S(<< "R", "e", "g", "i", "o", "n" >>),
        S(<< "C", "o", "d", "e" >>),
        S(<< "N", "a", "m", "e" >>),
        S(<< "O", "c", "c", "\n", "1" >>) >>,
     << S(<< "E", "N" >>),
        S(<< "E" >>),
        S(<< "E", "N" >>),
        N(<< "0", ".", "9" >>) >>,
     << S(<< "N", "W" >>),
        S(<< "Q", "Y", "G" >>),
        S(<< "C", "M" >>),
        N(<< "0", ".", "5" >>) >>,
     << S(<< "S", "W" >>),
        S(<< "Q", "T", "6" >>),
        S(<< "C", "W" >>),
        S(<< "1", "0", "0", "%", "*" >>) >> >>]

\* December 2023: an all-empty padding column; occupancy given as text
SheetDec23 ==
  [cols |-> << S(<< "T" >>), S(<< "U", "1" >>), S(<< "U", "2" >>), S(<< "U", "3" >>), S(<< "U", "4" >>) >>,
   rows |-> <<
     << S(<< "R", "e", "g", "i", "o", "n" >>),
        S(<< "C", "o", "d", "e" >>),
        S(<< "N", "a", "m", "e" >>),
        NaN,
        S(<< " ", "O", "c", "c" >>) >>,
     << S(<< "E", "N" >>),
        S(<< "A", "B" >>),
        S(<< "E", "N" >>),
        NaN,
        S(<< "9", "0", "%" >>) >>,
     << S(<< "N", "W" >>),
        S(<< "Q", "Y", "G" >>),
        S(<< "C", "M" >>),
        NaN,
        S(<< "9", "5", "%" >>) >>,
     << S(<< "S", "W" >>),
        S(<< "Q", "T", "6" >>),
        S(<< "C", "W" >>),
        NaN,
        S(<< "1", "0", "0", "%", "*" >>) >> >>]

\* January 2024: region codes E, ABC, AB and a missing code
SheetJan24 ==
  [cols |-> << S(<< "T" >>), S(<< "U", "1" >>), S(<< "U", "2" >>), S(<< "U", "3" >>) >>,
   rows |-> <<
     << S(<< "R", "e", "g", "i", "o", "n" >>),
        S(<< "C", "o", "d", "e" >>),
        S(<< "N", "a", "m", "e" >>),
        S(<< "O", "c", "c" >>) >>,
     << S(<< "E", "N" >>),
        S(<< "E" >>),
        S(<< "E", "N" >>),
        N(<< "0", ".", "9" >>) >>,
     << S(<< "N", "W" >>),
        S(<< "A", "B", "C" >>),
        S(<< "C", "M" >>),
        N(<< "1", ".", "0" >>) >>,
     << S(<< "S", "W" >>),
        S(<< "A", "B" >>),
        S(<< "C", "W" >>),
        S(<< "5", "*" >>) >>,
     << S(<< "S", "E" >>),
        NaN,
        S(<< "C", "X" >>),
        N(<< "0", ".", "4" >>) >> >>]

\* January 2024, revised: region QYG listed twice
SheetJan24Rev ==
  [cols |-> << S(<< "T" >>), S(<< "U", "1" >>), S(<< "U", "2" >>), S(<< "U", "3" >>) >>,
   rows |-> <<
     << S(<< "R", "e", "g", "i", "o", "n" >>),
        S(<< "C", "o", "d", "e" >>),
        S(<< "N", "a", "m", "e" >>),
        S(<< "O", "c", "c" >>) >>,
     << S(<< "N", "W" >>),
        S(<< "Q", "Y", "G" >>),
        S(<< "C", "M" >>),
        N(<< "0", ".", "5" >>) >>,
     << S(<< "N", "W" >>),
        S(<< "Q", "Y", "G" >>),
        S(<< "C", "M" >>),
        S(<< "1", "0", "0", "%", "*" >>) >>,
     << S(<< "S", "W" >>),
        S(<< "Q", "T", "6" >>),
        S(<< "C", "W" >>),
        N(<< "0", ".", "7" >>) >> >>]

\* a locally saved January 2024 workbook
SheetLocal ==
  [cols |-> << S(<< "T" >>), S(<< "U", "1" >>), S(<< "U", "2" >>), S(<< "U", "3" >>) >>,
   rows |-> <<
     << S(<< "R", "e", "g", "i", "o", "n" >>),
        S(<< "C", "o", "d", "e" >>),
        S(<< "N", "a", "m", "e" >>),
        S(<< "O", "c", "c" >>) >>,
     << S(<< "N", "W" >>),
        S(<< "Q", "Y", "G" >>),
        S(<< "C", "M" >>),
        N(<< "0", ".", "6" >>) >>,
     << S(<< "S", "W" >>),
        S(<< "Q", "T", "6" >>),
        S(<< "C", "W" >>),
        S(<< "*" >>) >> >>]

\* a workbook whose last column never starts with a digit
SheetNoNumeric ==
  [cols |-> << S(<< "T" >>), S(<< "U", "1" >>), S(<< "U", "2" >>), S(<< "U", "3" >>) >>,
   rows |-> <<
     << S(<< "R", "e", "g", "i", "o", "n" >>),
        S(<< "C", "o", "d", "e" >>),
        S(<< "N", "a", "m", "e" >>),
        S(<< "O", "c", "c" >>) >>,
     << S(<< "N", "W" >>),
        S(<< "Q", "Y", "G" >>),
        S(<< "C", "M" >>),
        S(<< "*" >>) >>,
     << S(<< "S", "W" >>),
        S(<< "Q", "T", "6" >>),
        S(<< "C", "W" >>),
        NaN >> >>]

\* a workbook whose first loaded row is already numeric
SheetNoHeader ==
  [cols |-> << S(<< "R", "e", "g", "i", "o", "n" >>), S(<< "C", "o", "d", "e" >>), S(<< "N", "a", "m", "e" >>), S(<< "O", "c", "c" >>) >>,
   rows |-> <<
     << S(<< "N", "W" >>),
        S(<< "Q", "Y", "G" >>),
        S(<< "C", "M" >>),
        N(<< "0", ".", "5" >>) >>,
     << S(<< "S", "W" >>),
        S(<< "Q", "T", "6" >>),
        S(<< "C", "W" >>),
        S(<< "7", "0", "%" >>) >> >>]

\* read_in_raw_file: the table a raw file's content loads as
ReadInRawFile(content) ==
  CASE content = "Nov23" -> SheetNov23
    [] content = "Dec23" -> SheetDec23
    [] content = "Jan24" -> SheetJan24
    [] content = "Jan24Rev" -> SheetJan24Rev
    [] content = "Local" -> SheetLocal
    [] content = "NoNumeric" -> SheetNoNumeric
    [] content = "NoHeader" -> SheetNoHeader
    [] OTHER -> NoTable

\* pd.ExcelFile raises on a file that is no workbook
IsWorkbook(content) == content \notin {"lock", "text"}

(***************************************************************************)
(* File names, link texts and link targets of the model.                   *)
(***************************************************************************)
\* "2023_11_Monthly_Virtual_Ward.xlsx"
RawNov23 == << "2", "0", "2", "3", "_", "1", "1", "_", "M", "o", "n", "t", "h", "l", "y", "_", "V", "i", "r", "t", "u", "a", "l", "_", "W", "a", "r", "d", ".", "x", "l", "s", "x" >>

\* "2023_12_Monthly_Virtual_Ward.xlsx"
RawDec23 == << "2", "0", "2", "3", "_", "1", "2", "_", "M", "o", "n", "t", "h", "l", "y", "_", "V", "i", "r", "t", "u", "a", "l", "_", "W", "a", "r", "d", ".", "x", "l", "s", "x" >>

\* "2024_01_Monthly_Virtual_Ward.xlsx"
RawJan24 == << "2", "0", "2", "4", "_", "0", "1", "_", "M", "o", "n", "t", "h", "l", "y", "_", "V", "i", "r", "t", "u", "a", "l", "_", "W", "a", "r", "d", ".", "x", "l", "s", "x" >>

\* "2024_1_VW.xlsx"
RawLocalJan24 == << "2", "0", "2", "4", "_", "1", "_", "V", "W", ".", "x", "l", "s", "x" >>

\* "report.xlsx"
RawReport == << "r", "e", "p", "o", "r", "t", ".", "x", "l", "s", "x" >>

\* "~$2024_01_Monthly_Virtual_Ward.xlsx"
RawLock == << "~", "$", "2", "0", "2", "4", "_", "0", "1", "_", "M", "o", "n", "t", "h", "l", "y", "_", "V", "i", "r", "t", "u", "a", "l", "_", "W", "a", "r", "d", ".", "x", "l", "s", "x" >>

\* "notes.txt"
RawNotes == << "n", "o", "t", "e", "s", ".", "t", "x", "t" >>

\* "_Monthly_Virtual_Ward.xlsx"
MonthlySuffix == << "_", "M", "o", "n", "t", "h", "l", "y", "_", "V", "i", "r", "t", "u", "a", "l", "_", "W", "a", "r", "d", ".", "x", "l", "s", "x" >>

\* "VW November 2023"
TextNov23 == << "V", "W", " ", "N", "o", "v", "e", "m", "b", "e", "r", " ", "2", "0", "2", "3" >>

\* "December 2023 data"
TextDec23 == << "D", "e", "c", "e", "m", "b", "e", "r", " ", "2", "0", "2", "3", " ", "d", "a", "t", "a" >>

\* "VW January 2024"
TextJan24 == << "V", "W", " ", "J", "a", "n", "u", "a", "r", "y", " ", "2", "0", "2", "4" >>

\* "VW January 2024 revised May"
TextJan24Rev == << "V", "W", " ", "J", "a", "n", "u", "a", "r", "y", " ", "2", "0", "2", "4", " ", "r", "e", "v", "i", "s", "e", "d", " ", "M", "a", "y" >>

\* "2024 VW data February"
TextYearFirst == << "2", "0", "2", "4", " ", "V", "W", " ", "d", "a", "t", "a", " ", "F", "e", "b", "r", "u", "a", "r", "y" >>

\* "VW latest"
TextNoYear == << "V", "W", " ", "l", "a", "t", "e", "s", "t" >>

\* "u1.xlsx"
HrefNov23 == << "u", "1", ".", "x", "l", "s", "x" >>

\* "u2.xlsx"
HrefDec23 == << "u", "2", ".", "x", "l", "s", "x" >>

\* "u3.xlsx"
HrefJan24 == << "u", "3", ".", "x", "l", "s", "x" >>

\* "u4.xlsx"
HrefJan24Rev == << "u", "4", ".", "x", "l", "s", "x" >>

\* "u5.xlsx"
HrefFeb24 == << "u", "5", ".", "x", "l", "s", "x" >>

\* "info.pdf"
HrefInfo == << "i", "n", "f", "o", ".", "p", "d", "f" >>

\* "u7.xlsx"
HrefDraft == << "u", "7", ".", "x", "l", "s", "x" >>

\* "u6.xlsx"
HrefLatest == << "u", "6", ".", "x", "l", "s", "x" >>

MonthNames ==
  << << "J", "a", "n", "u", "a", "r", "y" >>,
     << "F", "e", "b", "r", "u", "a", "r", "y" >>,
     << "M", "a", "r", "c", "h" >>,
     << "A", "p", "r", "i", "l" >>,
     << "M", "a", "y" >>,
     << "J", "u", "n", "e" >>,
     << "J", "u", "l", "y" >>,
     << "A", "u", "g", "u", "s", "t" >>,
     << "S", "e", "p", "t", "e", "m", "b", "e", "r" >>,
     << "O", "c", "t", "o", "b", "e", "r" >>,
     << "N", "o", "v", "e", "m", "b", "e", "r" >>,
     << "D", "e", "c", "e", "m", "b", "e", "r" >> >>

(***************************************************************************)
(* Fetcher: VirtualWardsStatsDownloader (extract_raw_data.py, utils.py).   *)
(***************************************************************************)
\* strptime's %B: the month number of a full month name, 0 for anything else
MonthOfName(tok) ==
  IF \E i \in 1..12 : MonthNames[i] = tok
  THEN CHOOSE i \in 1..12 : MonthNames[i] = tok
  ELSE 0

\* datetime.strptime(month + " " + year, "%B %Y")
Strptime_B_Y(month, year) ==
  IF MonthOfName(month) # 0 /\ IsInt(year) /\ Len(year) = 4
  THEN [err |-> "", y |-> IntOf(year), m |-> MonthOfName(month)]
  ELSE NoDate

\* bits[i] for a 0-based i, negative counting from the end
PyIndex(bits, i) == IF i < 0 THEN bits[Len(bits) + i + 1] ELSE bits[i + 1]

\* year set to "" before the loop: a text without a year fails in strptime
ExtractDateFromTextYearPreset(text) ==
  LET bits == SplitOn(text, " ")
      found == \E i \in 1..Len(bits) : IsInt(bits[i])
      j == IF found
           THEN (CHOOSE i \in 1..Len(bits) :
                    IsInt(bits[i]) /\ \A h \in 1..(i - 1) : ~IsInt(bits[h])) - 1
           ELSE Len(bits) - 1
      month == PyIndex(bits, j - 1)
  IN  IF ~found THEN NoDate
      ELSE Strptime_B_Y(month, PyIndex(bits, j))

\* extract_date_from_text: the loop leaves j at the first all-digit bit, or at
\* the last bit with year unbound when there is none
ExtractDateFromText(text) ==
  LET bits == SplitOn(text, " ")
      found == \E i \in 1..Len(bits) : IsInt(bits[i])
      j == IF found
           THEN (CHOOSE i \in 1..Len(bits) :
                    IsInt(bits[i]) /\ \A h \in 1..(i - 1) : ~IsInt(bits[h])) - 1
           ELSE Len(bits) - 1
      month == PyIndex(bits, j - 1)
  IN  IF ~found THEN [NoDate EXCEPT !.err = "UnboundLocalError"]
      ELSE Strptime_B_Y(month, PyIndex(bits, j))

\* generate_raw_filename
GenerateRawFilename(date) == Strftime_Y_m(date) \o MonthlySuffix

\* is_data_link
IsDataLink(link) == EndsWith(link.href, XlsxExt)

(***************************************************************************)
(* The world around the pipeline: the statistics homepage, what each link  *)
(* target serves, and the files a user may have put in the raw directory.  *)
(***************************************************************************)
Link(text, href) == [text |-> text, href |-> href]

\* a homepage listing the months out of order, one month twice, and a link
\* that is no spreadsheet
PageMonths ==
  << Link(TextNov23, HrefNov23), Link(TextNoYear, HrefInfo),
     Link(TextJan24, HrefJan24), Link(TextJan24Rev, HrefJan24Rev),
     Link(TextDec23, HrefDec23) >>

\* a homepage with a year-first link text and a spreadsheet link without a year
PageOdd ==
  << Link(TextYearFirst, HrefFeb24), Link(TextDec23, HrefDraft),
     Link(TextNoYear, HrefLatest), Link(TextNov23, HrefNov23) >>

Homepages == {PageMonths, PageOdd}

\* get_page_content(link["href"]): the content a link target serves
Served(href) ==
  CASE href = HrefNov23 -> "Nov23"
    [] href = HrefDec23 -> "Dec23"
    [] href = HrefJan24 -> "Jan24"
    [] href = HrefJan24Rev -> "Jan24Rev"
    [] href = HrefFeb24 -> "NoHeader"
    [] href = HrefLatest -> "Nov23"
    [] href = HrefDraft -> "NoNumeric"
    [] href = HrefInfo -> "text"

\* files that may already lie in the raw directory: (name, content)
LocalFiles ==
  { << RawLocalJan24, "Local" >>, << RawJan24, "Local" >>, << RawReport, "Nov23" >>,
    << RawLock, "lock" >>, << RawNotes, "text" >> }

\* a directory: a function from the names of its files to their contents
EmptyDir == [n \in {} |-> ""]

DirOf(files) == [n \in {f[1] : f \in files} |-> (CHOOSE f \in files : f[1] = n)[2]]

WriteFile(dir, name, content) ==
  [n \in (DOMAIN dir) \cup {name} |-> IF n = name THEN content ELSE dir[n]]

(***************************************************************************)
(* State.                                                                  *)
(***************************************************************************)
VARIABLES
  page,      \* the homepage's anchors, in document order
  raw,       \* data/raw: file name -> content
  staging,   \* data/staging: file name -> csv table
  master,    \* data/processed: the combined csv table
  fetch,     \* the running or last download_data pass
  http,      \* the link targets requested in that pass, in order
  norm,      \* the running or last normalize-all command
  last,      \* the running command's latest process_file call and its outcome
  origin,    \* per staging file: the raw file (name, content) it was written from
  comb,      \* the combine command just run: listing, order read, outcome
  cycle      \* how far the commands have come through a run and a re-run

pipeVars ==
  << page, raw, staging, master, fetch, http, norm, last, origin, comb, cycle >>

NoFetch ==
  [status |-> "idle", pc |-> 0, overwrite |-> FALSE, main |-> FALSE,
   links |-> << >>, had |-> {}, err |-> ""]

NoNorm == [status |-> "idle", pending |-> {}, raised |-> FALSE]

NoLast ==
  [file |-> << >>, content |-> "", outcome |-> "none", constructed |-> FALSE,
   err |-> "", out |-> << >>, again |-> FALSE]

NoOrigin == [n \in {} |-> << >>]

NoComb == [status |-> "idle", listing |-> << >>, files |-> << >>]

\* the commands run so far, as far as they make up a run of the pipeline and a
\* re-run: phase 1 fetch, 2 normalize-all, 3 combine, 4 fetch again,
\* 5 normalize-all again, 6 combine again; first: the raw files downloaded in
\* phase 1; again: those of them downloaded again in phase 4; redone: the
\* staging files written from these in phase 4
NoCycle == [phase |-> 0, first |-> {}, again |-> {}, redone |-> {}]

\* the commands are followed only from an empty raw directory, where every raw
\* file is one the Fetcher wrote; from any other they are not (phase -1)
Unfollowed == [NoCycle EXCEPT !.phase = -1]

\* the phase a command moves the pipeline on to, if it is the next in the run
Advance(c, from) ==
  IF c.phase \in from THEN [c EXCEPT !.phase = @ + 1] ELSE c

InitPipe ==
  /\ page \in Homepages
  /\ \E files \in SUBSET LocalFiles :
       /\ Cardinality(files) <= MaxLocalFiles
       /\ \A f, g \in files : f[1] = g[1] => f = g
       /\ raw = DirOf(files)
  /\ staging = EmptyDir
  /\ master = NoTable
  /\ fetch = NoFetch
  /\ http = << >>
  /\ norm = NoNorm
  /\ last = NoLast
  /\ origin = NoOrigin
  /\ comb = NoComb
  /\ cycle = IF raw = EmptyDir THEN NoCycle ELSE Unfollowed

\* the batch commands are run one at a time
Idle == fetch.status # "running" /\ norm.status # "running"

(***************************************************************************)
(* Fetcher actions.                                                        *)
(***************************************************************************)
\* get_data_links: the anchors whose target is a spreadsheet
GetDataLinks(anchors) == SelectSeq(anchors, IsDataLink)

\* download_data(overwrite) starts: the pass will visit the data links in order
StartDownload(overwrite, main) ==
  /\ Idle
  /\ fetch' = [status |-> "running", pc |-> 1, overwrite |-> overwrite, main |-> main,
               links |-> GetDataLinks(page), had |-> DOMAIN raw, err |-> ""]
  /\ http' = << >>
  /\ norm' = NoNorm /\ last' = NoLast /\ comb' = NoComb
  /\ cycle' = Advance(cycle, {0, 3})
  /\ UNCHANGED << page, raw, staging, master, origin >>

\* a caller runs download_data with its default, overwrite=False
DownloadData == StartDownload(FALSE, FALSE)

\* extract_raw_data.main: the fetch command
FetchMain == StartDownload(TRUE, TRUE)

\* the test with the existence check inverted
ShouldDownloadIfExists(overwrite, exists) == overwrite \/ exists

\* download_file's test for fetching the link
ShouldDownload(overwrite, exists) == overwrite \/ ~exists

\* a download noted in the run: a raw file of phase 1, or one of these
\* downloaded again in phase 4
Downloaded(c, filename) ==
  IF c.phase = 1 THEN [c EXCEPT !.first = @ \cup {filename}]
  ELSE IF c.phase = 4 /\ filename \in c.first
       THEN [c EXCEPT !.again = @ \cup {filename}]
  ELSE c

\* download_file for the next link of the pass
DownloadFile ==
  /\ fetch.status = "running"
  /\ fetch.pc <= Len(fetch.links)
  /\ LET link == fetch.links[fetch.pc]
         date == ExtractDateFromText(link.text)
         filename == GenerateRawFilename(date)
     IN  IF date.err # ""
         THEN /\ fetch' = [fetch EXCEPT !.status = "failed", !.err = date.err]
              /\ UNCHANGED << raw, http, cycle >>
         ELSE /\ fetch' = [fetch EXCEPT !.pc = @ + 1]
              /\ IF ShouldDownload(fetch.overwrite, filename \in DOMAIN raw)
                 THEN /\ http' = Append(http, link.href)
                      /\ raw' = WriteFile(raw, filename, Served(link.href))
                      /\ cycle' = Downloaded(cycle, filename)
                 ELSE UNCHANGED << raw, http, cycle >>
  /\ UNCHANGED << page, staging, master, norm, last, origin, comb >>

\* download_data returns after the last link
DownloadDone ==
  /\ fetch.status = "running"
  /\ fetch.pc > Len(fetch.links)
  /\ fetch' = [fetch EXCEPT !.status = "done"]
  /\ UNCHANGED << page, raw, staging, master, http, norm, last, origin, comb, cycle >>

(***************************************************************************)
(* Normalizer actions.                                                     *)
(***************************************************************************)
\* a to_csv that appends to a file already there (mode="a")
WriteCsvAppend(dir, name, table) ==
  IF name \in DOMAIN dir
  THEN WriteFile(dir, name, [cols |-> table.cols, rows |-> dir[name].rows \o table.rows])
  ELSE WriteFile(dir, name, table)

\* a to_csv that leaves a file already there as it is (mode="x", error passed over)
WriteCsvKeepExisting(dir, name, table) ==
  IF name \in DOMAIN dir THEN dir ELSE WriteFile(dir, name, table)

\* df.to_csv(path, index=False) into the staging directory: the file is
\* created or replaced
WriteCsv(dir, name, table) == WriteFile(dir, name, table)

\* what one process_file call does with a raw file: the outcome, whether an
\* ExcelFileProcessor was constructed, the error raised, and the staging file
\* written with its table
Skipped ==
  [outcome |-> "skipped", constructed |-> FALSE, err |-> "", out |-> << >>,
   table |-> NoTable]

\* the error caught in process_file and logged like a skip
RaisedCaught(e) ==
  [outcome |-> "skipped", constructed |-> TRUE, err |-> e, out |-> << >>,
   table |-> NoTable]

Raised(e) ==
  [outcome |-> "raised", constructed |-> TRUE, err |-> e, out |-> << >>,
   table |-> NoTable]

\* write_clean_file_to_staging
WriteCleanFileToStaging(content, date) ==
  LET t == TransformDataframe(ReadInRawFile(content), date)
  IN  IF ~IsWorkbook(content) THEN Raised("BadZipFile")
      ELSE IF t.err # "" THEN Raised(t.err)
      ELSE [outcome |-> "written", constructed |-> TRUE, err |-> "",
            out |-> StagingFilename(date), table |-> ToCsv(t.df)]

\* process_file
ProcessFileResult(raw_filename, content) ==
  IF IsProcessable(raw_filename)
  THEN LET date == GetDate(raw_filename)
       IN  IF date.err # "" THEN Raised(date.err)
           ELSE WriteCleanFileToStaging(content, date)
  ELSE Skipped

\* the raw files of the model, and process_file's result for each (@@ makes
\* the table an explicit one: the results are computed once, not at every step)
RawNames ==
  {RawNov23, RawDec23, RawJan24, RawLocalJan24, RawReport, RawLock, RawNotes,
   GenerateRawFilename([err |-> "", y |-> 2024, m |-> 2])}

Contents == {"Nov23", "Dec23", "Jan24", "Jan24Rev", "Local", "NoNumeric", "NoHeader",
             "lock", "text"}

ProcessTable ==
  [x \in RawNames \X Contents |-> ProcessFileResult(x[1], x[2])] @@ << >>

\* transform_data.main starts: one task per file of the raw directory
NormMain ==
  /\ Idle
  /\ norm' = IF DOMAIN raw = {}
             THEN [status |-> "failed", pending |-> {}, raised |-> TRUE]
             ELSE [status |-> "running", pending |-> DOMAIN raw, raised |-> FALSE]
  /\ fetch' = NoFetch /\ http' = << >> /\ last' = NoLast /\ comb' = NoComb
  /\ UNCHANGED << page, raw, staging, master, origin, cycle >>

\* a pool worker runs process_file on one of the files
ProcessFile(f) ==
  /\ norm.status = "running"
  /\ f \in norm.pending
  /\ LET r == ProcessTable[<< f, raw[f] >>]
     IN  /\ staging' = IF r.outcome = "written"
                       THEN WriteCsv(staging, r.out, r.table)
                       ELSE staging
         /\ origin' = IF r.outcome = "written"
                      THEN WriteFile(origin, r.out, << f, raw[f] >>)
                      ELSE origin
         /\ last' = [file |-> f, content |-> raw[f], outcome |-> r.outcome,
                     constructed |-> r.constructed, err |-> r.err, out |-> r.out,
                     again |-> r.outcome = "written" /\ r.out \in DOMAIN origin
                               /\ origin[r.out] = << f, raw[f] >>]
         /\ norm' = [norm EXCEPT !.pending = @ \ {f},
                                 !.raised = @ \/ r.outcome = "raised"]
         /\ cycle' = IF r.outcome = "written" /\ cycle.phase = 4 /\ f \in cycle.again
                      THEN [cycle EXCEPT !.redone = @ \cup {r.out}]
                      ELSE cycle
  /\ UNCHANGED << page, raw, master, fetch, http, comb >>

\* pool.map returns (or re-raises a task's error) once every task has run
NormJoin ==
  /\ norm.status = "running"
  /\ norm.pending = {}
  /\ norm' = [norm EXCEPT !.status = IF norm.raised THEN "failed" ELSE "done"]
  /\ cycle' = Advance(cycle, {1, 4})
  /\ UNCHANGED << page, raw, staging, master, fetch, http, last, origin, comb >>

\* pool.map hands the files out in chunks of ceil(n / (4 * workers)) files, and
\* a chunk ends at its first error: with one worker and five to eight files
\* the chunks hold two files, and when process_file raises on the first file
\* f of a chunk the second, g, is never processed
ChunkAborted(f, g) ==
  /\ norm.status = "running"
  /\ f \in norm.pending /\ g \in norm.pending /\ f # g
  /\ Cardinality(DOMAIN raw) > 4
  /\ LET r == ProcessTable[<< f, raw[f] >>]
     IN  /\ r.outcome = "raised"
         /\ last' = [file |-> f, content |-> raw[f], outcome |-> r.outcome,
                     constructed |-> r.constructed, err |-> r.err, out |-> r.out,
                     again |-> FALSE]
  /\ norm' = [norm EXCEPT !.pending = @ \ {f, g}, !.raised = TRUE]
  /\ UNCHANGED << page, raw, staging, master, fetch, http, origin, comb, cycle >>

(***************************************************************************)
(* Combiner (combine_data.py).                                             *)
(***************************************************************************)
\* list.sort() on file names: insertion into an ascending list
RECURSIVE InsertSorted(_, _)
InsertSorted(x, sorted) ==
  IF Len(sorted) = 0 THEN << x >>
  ELSE IF StrLess(x, sorted[1]) THEN << x >> \o sorted
  ELSE << sorted[1] >> \o InsertSorted(x, Tail(sorted))

RECURSIVE SortNames(_)
SortNames(files) ==
  IF Len(files) = 0 THEN << >>
  ELSE InsertSorted(files[Len(files)], SortNames(SubSeq(files, 1, Len(files) - 1)))

\* os.listdir: the names of a directory in some order
Listings(dir) ==
  {l \in [1..Cardinality(DOMAIN dir) -> DOMAIN dir] :
     \A i, j \in 1..Cardinality(DOMAIN dir) : i # j => l[i] # l[j]}

\* pd.read_csv of a staging file
ReadCsv(table) == table

\* the labels of all tables in order of first appearance
RECURSIVE UnionCols(_)
UnionCols(dfs) ==
  IF Len(dfs) = 0 THEN << >>
  ELSE LET before == UnionCols(SubSeq(dfs, 1, Len(dfs) - 1))
           df == dfs[Len(dfs)]
           New(c) == ColIndex(before, df.cols[c]) = 0
       IN  before \o SelectIdx(df.cols, New, 1)

\* a row of df laid out under cols, an absent field left empty
AlignRow(df, row, cols) ==
  [c \in 1..Len(cols) |->
     IF ColIndex(df.cols, cols[c]) = 0 THEN << >> ELSE row[ColIndex(df.cols, cols[c])]]

RECURSIVE ConcatRows(_, _)
ConcatRows(dfs, cols) ==
  IF Len(dfs) = 0 THEN << >>
  ELSE [i \in 1..Len(dfs[1].rows) |-> AlignRow(dfs[1], dfs[1].rows[i], cols)]
         \o ConcatRows(Tail(dfs), cols)

\* pd.concat(dfs)
Concat(dfs) == [cols |-> UnionCols(dfs), rows |-> ConcatRows(dfs, UnionCols(dfs))]

\* the listing read as it came, without files.sort()
CombineOrderUnsorted(listing) == listing

\* the order in which main reads the staging files
CombineOrder(listing) == SortNames(listing)

\* the master file opened for appending: the rows read are added to those the
\* file already holds
CombineMainAppending ==
  /\ Idle
  /\ \E listing \in Listings(staging) :
       LET files == CombineOrder(listing)
           dfs == [i \in 1..Len(files) |-> ReadCsv(staging[files[i]])]
       IN  IF Len(files) = 0
           THEN /\ comb' = [status |-> "failed", listing |-> listing, files |-> files]
                /\ UNCHANGED << master, cycle >>
           ELSE /\ comb' = [status |-> "done", listing |-> listing, files |-> files]
                /\ master' = IF Len(master.rows) = 0 THEN Concat(dfs)
                              ELSE [cols |-> master.cols,
                                    rows |-> master.rows \o Concat(dfs).rows]
                /\ cycle' = Advance(cycle, {2, 5})
  /\ fetch' = NoFetch /\ http' = << >> /\ norm' = NoNorm /\ last' = NoLast
  /\ UNCHANGED << page, raw, staging, origin >>

\* combine_data.main
CombineMain ==
  /\ Idle
  /\ \E listing \in Listings(staging) :
       LET files == CombineOrder(listing)
           dfs == [i \in 1..Len(files) |-> ReadCsv(staging[files[i]])]
       IN  IF Len(files) = 0
           THEN /\ comb' = [status |-> "failed", listing |-> listing, files |-> files]
                /\ UNCHANGED << master, cycle >>
           ELSE /\ comb' = [status |-> "done", listing |-> listing, files |-> files]
                /\ master' = Concat(dfs)
                /\ cycle' = Advance(cycle, {2, 5})
  /\ fetch' = NoFetch /\ http' = << >> /\ norm' = NoNorm /\ last' = NoLast
  /\ UNCHANGED << page, raw, staging, origin >>

(***************************************************************************)
(* Dashboard (app.py): the three inputs, the two figures, and the          *)
(* callbacks the browser has dispatched and not yet received.              *)
(***************************************************************************)
\* the dropdown's options; the first is the layout's value
CAPACITY_PER_POPULATION == "capacity_per_population"

Metrics == {CAPACITY_PER_POPULATION, "capacity", "occupancy"}

\* dates = np.sort(data[DATE].unique()), and their "%m/%Y" labels
dates == << "2023-11-01", "2023-12-01", "2024-01-01" >>

date_labels == << "11/2023", "12/2023", "01/2024" >>

\* date_lookup = dict(zip(date_labels, dates))
date_lookup(label) == dates[CHOOSE i \in 1..Len(dates) : date_labels[i] = label]

\* the regions of the map; QYG is the one the layout and update_metric_shown name
DefaultIcb == "QYG"

Regions == {DefaultIcb, "QT6", "QOP"}

None == "None"

\* filter_date: date=None means the most recent date of the data
FilterDate(date) == IF date = None THEN dates[Len(dates)] ELSE date

\* get_map(data, col, date): the figure is determined by the metric and the date
GetMap(col, date) == [col |-> col, date |-> FilterDate(date)]

\* get_time_series(data, icb_code, col)
GetTimeSeries(icb_code, col) == [icb |-> icb_code, col |-> col]

VARIABLES
  dropdown,   \* the dropdown's value
  slider,     \* the slider's value, an index into dates (from 0)
  clickData,  \* the map's clickData: None or the clicked location
  mapFig,     \* the map's figure
  tsFig,      \* the time series' figure
  inflight,   \* the dispatched callbacks with the input values they were sent
  events      \* how many input events the session has made

dashVars == << dropdown, slider, clickData, mapFig, tsFig, inflight, events >>

Callback(name, col, arg) == [name |-> name, col |-> col, arg |-> arg]

\* the callbacks that have the dropdown as an input
OnDropdown(col, sl, cd) ==
  { Callback("update_metric_shown", col, None),
    Callback("update_date_shown", col, sl),
    Callback("update_icb_shown", col, cd) }

\* the layout, and the initial call of every callback
\* (prevent_initial_call="initial_duplicate")
InitDash ==
  /\ dropdown = CAPACITY_PER_POPULATION
  /\ slider = Len(dates) - 1
  /\ clickData = None
  /\ mapFig = GetMap(CAPACITY_PER_POPULATION, None)
  /\ tsFig = GetTimeSeries(DefaultIcb, CAPACITY_PER_POPULATION)
  /\ inflight = OnDropdown(CAPACITY_PER_POPULATION, Len(dates) - 1, None)
  /\ events = 0

\* the user acts once the page has settled
Settled == inflight = {}

\* the user picks another metric
SelectMetric ==
  /\ Settled /\ events < MaxEvents
  /\ \E col \in Metrics \ {dropdown} :
       /\ dropdown' = col
       /\ inflight' = OnDropdown(col, slider, clickData)
  /\ events' = events + 1
  /\ UNCHANGED << slider, clickData, mapFig, tsFig >>

\* the user drags the slider
MoveSlider ==
  /\ Settled /\ events < MaxEvents
  /\ \E i \in (0..(Len(dates) - 1)) \ {slider} :
       /\ slider' = i
       /\ inflight' = {Callback("update_date_shown", dropdown, i)}
  /\ events' = events + 1
  /\ UNCHANGED << dropdown, clickData, mapFig, tsFig >>

\* the user clicks a region of the map
ClickMap ==
  /\ Settled /\ events < MaxEvents
  /\ \E location \in Regions :
       /\ clickData' = location
       /\ inflight' = {Callback("update_icb_shown", dropdown, location)}
  /\ events' = events + 1
  /\ UNCHANGED << dropdown, slider, mapFig, tsFig >>

\* update_metric_shown(col) returns and the browser applies its outputs
UpdateMetricShown ==
  \E cb \in inflight :
    /\ cb.name = "update_metric_shown"
    /\ mapFig' = GetMap(cb.col, None)
    /\ tsFig' = GetTimeSeries(DefaultIcb, cb.col)
    /\ inflight' = inflight \ {cb}
    /\ UNCHANGED << dropdown, slider, clickData, events >>

\* update_date_shown(slider, col)
UpdateDateShown ==
  \E cb \in inflight :
    /\ cb.name = "update_date_shown"
    /\ mapFig' = GetMap(cb.col, date_lookup(date_labels[cb.arg + 1]))
    /\ inflight' = inflight \ {cb}
    /\ UNCHANGED << dropdown, slider, clickData, tsFig, events >>

\* update_icb_shown(clickData, col): no_update when nothing was clicked
UpdateIcbShown ==
  \E cb \in inflight :
    /\ cb.name = "update_icb_shown"
    /\ tsFig' = IF cb.arg # None THEN GetTimeSeries(cb.arg, cb.col) ELSE tsFig
    /\ inflight' = inflight \ {cb}
    /\ UNCHANGED << dropdown, slider, clickData, mapFig, events >>

(***************************************************************************)
(* Table extraction on its own: _index_header_row, remove_leading_rows and *)
(* promote_header_row applied to a loaded sheet drawn from a bounded set.  *)
(***************************************************************************)
\* the cells a drawn sheet's last column is made of: "text", "2", "3", the
\* number 0.5, a missing value and "*"
LastCells ==
  { S(<< "t", "e", "x", "t" >>), S(<< "2" >>), S(<< "3" >>),
    N(<< "0", ".", "5" >>), NaN, S(<< "*" >>) }

\* the loaded sheets of up to MaxRows rows: the last column alone, or after a
\* column that tells the rows apart ("r1", "r2", ...)
DrawnSheets ==
  UNION { { [cols |-> IF wide THEN << S(<< "A" >>), S(<< "C" >>) >> ELSE << S(<< "C" >>) >>,
             rows |-> [i \in 1..n |->
                         IF wide THEN << S(<< "r", DigitChars[i + 1] >>), col[i] >>
                         ELSE << col[i] >>]] :
            col \in [1..n -> LastCells], wide \in BOOLEAN } : n \in 0..MaxRows }

\* _index_header_row called on its own: the index it returns, or the
\* IndexError of np.where(...)[0][0] when no cell starts with a digit
NoIndex == [err |-> "none", row |-> 0]

LocateHeaderRow(df) ==
  IF HasNumericRow(df) THEN [err |-> "", row |-> IndexHeaderRow(df)]
  ELSE [err |-> "IndexError", row |-> 0]

VARIABLES
  sheet,       \* the table pd.read_excel loaded
  step,        \* how far the extraction has come
  header_row,  \* what _index_header_row returned
  promoted     \* what remove_leading_rows and promote_header_row made of the sheet

unitVars == << sheet, step, header_row, promoted >>

\* no sheet is being extracted
UnitIdle ==
  /\ sheet = NoTable
  /\ step = "idle"
  /\ header_row = NoIndex
  /\ promoted = Ok(NoTable)

InitUnit ==
  /\ sheet \in DrawnSheets
  /\ step = "loaded"
  /\ header_row = NoIndex
  /\ promoted = Ok(NoTable)

\* header_row = self._index_header_row(df)
IndexHeader ==
  /\ step = "loaded"
  /\ header_row' = LocateHeaderRow(sheet)
  /\ step' = "indexed"
  /\ UNCHANGED << sheet, promoted >>

\* df = self.remove_leading_rows(df); df = self.promote_header_row(df)
ExtractTable ==
  /\ step = "indexed"
  /\ promoted' = Then(RemoveLeadingRows(sheet), PromoteHeaderRow)
  /\ step' = "extracted"
  /\ UNCHANGED << sheet, header_row >>

(***************************************************************************)
(* Specifications: the pipeline's commands, a dashboard session, and the   *)
(* extraction of a drawn sheet.                                            *)
(***************************************************************************)
vars == << pipeVars, dashVars, unitVars >>

\* no files and no command
PipeAtRest ==
  /\ page = PageMonths
  /\ raw = EmptyDir
  /\ staging = EmptyDir
  /\ master = NoTable
  /\ fetch = NoFetch
  /\ http = << >>
  /\ norm = NoNorm
  /\ last = NoLast
  /\ origin = NoOrigin
  /\ comb = NoComb
  /\ cycle = NoCycle

Init == InitPipe /\ InitDash /\ UnitIdle

Next ==
  \/ (DownloadData /\ UNCHANGED << dashVars, unitVars >>)
  \/ (FetchMain /\ UNCHANGED << dashVars, unitVars >>)
  \/ (DownloadFile /\ UNCHANGED << dashVars, unitVars >>)
  \/ (DownloadDone /\ UNCHANGED << dashVars, unitVars >>)
  \/ (NormMain /\ UNCHANGED << dashVars, unitVars >>)
  \/ (\E f \in DOMAIN raw : ProcessFile(f) /\ UNCHANGED << dashVars, unitVars >>)
  \/ (\E f, g \in DOMAIN raw : ChunkAborted(f, g) /\ UNCHANGED << dashVars, unitVars >>)
  \/ (NormJoin /\ UNCHANGED << dashVars, unitVars >>)
  \/ (CombineMain /\ UNCHANGED << dashVars, unitVars >>)

Spec == Init /\ [][Next]_vars

InitSession == PipeAtRest /\ InitDash /\ UnitIdle

NextDash ==
  \/ (SelectMetric /\ UNCHANGED << pipeVars, unitVars >>)
  \/ (MoveSlider /\ UNCHANGED << pipeVars, unitVars >>)
  \/ (ClickMap /\ UNCHANGED << pipeVars, unitVars >>)
  \/ (UpdateMetricShown /\ UNCHANGED << pipeVars, unitVars >>)
  \/ (UpdateDateShown /\ UNCHANGED << pipeVars, unitVars >>)
  \/ (UpdateIcbShown /\ UNCHANGED << pipeVars, unitVars >>)

SpecDash == InitSession /\ [][NextDash]_vars

InitExtract == PipeAtRest /\ InitDash /\ InitUnit

NextExtract ==
  \/ (IndexHeader /\ UNCHANGED << pipeVars, dashVars >>)
  \/ (ExtractTable /\ UNCHANGED << pipeVars, dashVars >>)

SpecExtract == InitExtract /\ [][NextExtract]_vars
(***************************************************************************)
(* Properties.  Helpers first: they restate what a claim expects without   *)
(* going through the operators that model the code under test.             *)
(***************************************************************************)
\* how often x occurs in a sequence
Count(seq, x) == Cardinality({i \in 1..Len(seq) : seq[i] = x})

\* the text a cell has in a csv file
CsvText(c) == IF c.k = "na" THEN << >> ELSE c.t

\* a field of a row of a table, by column name
Field(table, row, name) == row[ColIndex(table.cols, name)]

\* two digits for a month, four for a year
TwoDigits(n) == IF n < 10 THEN << "0" >> \o StrOfNat(n) ELSE StrOfNat(n)

\* the table read from a raw file, extracted and renamed, before any row is
\* dropped: columns region, code, name, occ
ExtractedOf ==
  [c \in Contents |->
     Then(Then(ExtractRawDataframe(ReadInRawFile(c)), RenameColumns),
          LAMBDA d : Ok(d)).df] @@ << >>

Extracted(content) == ExtractedOf[content]

\* the rows that reach the suppression step: region and name columns dropped,
\* invalid codes dropped
BeforeSuppressionOf ==
  [c \in Contents |->
     Then(DropRegionAndName(Extracted(c)), DropRowsWithInvalidIcbCode).df] @@ << >>

BeforeSuppression(content) == BeforeSuppressionOf[content]

\* the last process_file call wrote a staging file
Wrote == last.outcome = "written"

----------------------------------------------------------------------------
\* C1 (as claimed): process_file writes a staging file for a raw filename if
\* and only if the name ends in ".xlsx" and does not start with "~".
C1_WritesIffSpreadsheetName ==
  last.outcome # "none" =>
    (Wrote <=> (EndsWith(last.file, XlsxExt) /\ ~StartsWith(last.file, << "~" >>)))

\* C1 (amended): process_file constructs a processor, and so may write a
\* staging file, if and only if the name ends in ".xlsx" and does not start
\* with "~"; for such a name it either writes the staging file or raises.  For
\* every other name it skips: it leaves the staging directory as it is,
\* constructs no processor and raises nothing.
C1_SkipsOtherNames ==
  [][\A f \in DOMAIN raw :
       ProcessFile(f) =>
         LET named == EndsWith(f, XlsxExt) /\ ~StartsWith(f, << "~" >>)
         IN  /\ last'.file = f
             /\ last'.constructed <=> named
             /\ last'.outcome = "written" => named
             /\ named => /\ last'.outcome \in {"written", "raised"}
                         /\ last'.outcome = "written" => last'.out \in DOMAIN staging'
                         /\ last'.outcome = "raised" => staging' = staging
             /\ ~named => /\ last'.outcome = "skipped"
                          /\ last'.err = ""
                          /\ norm'.raised = norm.raised
                          /\ staging' = staging]_vars

\* an office lock file (".xlsx", but starting with "~") was skipped
C1_Witness == last.outcome = "skipped" /\ last.file = RawLock

----------------------------------------------------------------------------
\* the staging row expected for a row that reaches the suppression step:
\* flagged and filled with 1.0 when the occupancy text ends in "*", else
\* flagged False with the occupancy as it was; the other fields as they were
C2_ExpectedRow(df, row, date) ==
  LET oi == ColIndex(df.cols, OCCUPANCY)
      occ == row[oi].t
      star == Len(occ) > 0 /\ occ[Len(occ)] = "*"
  IN  << DateCell(date).t >>
        \o [c \in 1..Len(row) |->
              IF c = oi /\ star THEN << "1", ".", "0" >> ELSE CsvText(row[c])]
        \o << IF star THEN << "T", "r", "u", "e" >> ELSE << "F", "a", "l", "s", "e" >> >>

\* C2: in every table written to staging, each row whose occupancy text ends
\* in "*" has suppressed = True and occupancy = 1.0, every other row has
\* suppressed = False and its occupancy unchanged, and all other fields of
\* every row are unchanged (the rows are those that reached the step, each once).
C2_Suppression ==
  Wrote =>
    LET din == BeforeSuppression(last.content)
        out == staging[last.out]
        exp == [i \in 1..Len(din.rows) |->
                  C2_ExpectedRow(din, din.rows[i], GetDate(last.file))]
    IN  /\ Len(out.rows) = Len(exp)
        /\ \A i \in 1..Len(exp) : Count(out.rows, exp[i]) = Count(exp, exp[i])

\* the December sheet (occupancy "95%" and "100%*") was written: one row
\* flagged and filled, one row not
C2_Witness ==
  /\ Wrote /\ last.content = "Dec23"
  /\ \E i, j \in 1..Len(staging[last.out].rows) :
       LET t == staging[last.out]
       IN  /\ Field(t, t.rows[i], SUPPRESSED) = << "T", "r", "u", "e" >>
           /\ Field(t, t.rows[i], OCCUPANCY) = << "1", ".", "0" >>
           /\ Field(t, t.rows[j], SUPPRESSED) = << "F", "a", "l", "s", "e" >>
           /\ Field(t, t.rows[j], OCCUPANCY) = << "9", "5", "%" >>

----------------------------------------------------------------------------
\* the region codes of the extracted rows that are strings longer than 2
C3_LongCodesOf ==
  [c \in Contents |->
     LET ext == Extracted(c)
         ci == ColIndex(ext.cols, ICB_CODE)
         Long(i) == ext.rows[i][ci].k = "s" /\ Len(ext.rows[i][ci].t) > 2
     IN  IF ci = 0 THEN << >>
         ELSE [i \in 1..Len(SelectIdx(ext.rows, Long, 1)) |->
                 SelectIdx(ext.rows, Long, 1)[i][ci].t]] @@ << >>

C3_LongCodes(content) == C3_LongCodesOf[content]

\* C3: the table written from a raw file holds exactly the extracted rows
\* whose region code is longer than 2, each once: as many rows as there are
\* such extracted rows, and every code as often as it occurs among them.
C3_RowValidation ==
  Wrote =>
    LET codes == C3_LongCodes(last.content)
        out == staging[last.out]
        outCodes == [i \in 1..Len(out.rows) |-> Field(out, out.rows[i], ICB_CODE)]
    IN  /\ Len(outCodes) = Len(codes)
        /\ \A i \in 1..Len(outCodes) : Len(outCodes[i]) > 2
        /\ \A i \in 1..Len(codes) : Count(outCodes, codes[i]) = Count(codes, codes[i])

\* the January sheet (codes E, ABC, AB and a missing one) was written and
\* only ABC is left
C3_Witness ==
  /\ Wrote /\ last.content = "Jan24"
  /\ Len(Extracted(last.content).rows) = 4
  /\ Len(staging[last.out].rows) = 1
  /\ Field(staging[last.out], staging[last.out].rows[1], ICB_CODE) = << "A", "B", "C" >>

----------------------------------------------------------------------------
\* no two rows of a table share region code and date
C4_OnePerCodeAndDate(t) ==
  \A i, j \in 1..Len(t.rows) :
    (/\ Field(t, t.rows[i], ICB_CODE) = Field(t, t.rows[j], ICB_CODE)
     /\ Field(t, t.rows[i], DATE) = Field(t, t.rows[j], DATE)) => i = j

\* C4 (as claimed): no table in staging holds two rows with the same region
\* code and date, whatever rows the raw table holds.
C4_AlwaysOnePerCodeAndDate ==
  \A n \in DOMAIN staging : C4_OnePerCodeAndDate(staging[n])

\* C4 (amended): a table in staging holds no two rows with the same region
\* code and date provided the raw table it was written from lists no region
\* code longer than 2 characters twice.
C4_OnePerCodeAndDateWhenSourceIs ==
  \A n \in DOMAIN staging :
    LET codes == C3_LongCodes(origin[n][2])
    IN  (\A i, j \in 1..Len(codes) : codes[i] = codes[j] => i = j)
          => C4_OnePerCodeAndDate(staging[n])

\* a staging table of two regions written from the November sheet, whose
\* rows (England, QYG, QT6) name each region once
C4_Witness ==
  \E n \in DOMAIN staging :
    /\ origin[n][2] = "Nov23"
    /\ Len(staging[n].rows) = 2
    /\ Len(Extracted("Nov23").rows) = 3

----------------------------------------------------------------------------
\* C5: a table written from a raw file named <year>_<month>_... goes to the
\* staging file <year>_<two-digit month>.csv, its leading column is the date
\* column and every row carries there the first day of that month; a raw file
\* the Fetcher named for month m of year y has that year and month.
C5_DateStamping ==
  Wrote =>
    LET bits == SplitOn(last.file, "_")
        y == IntOf(bits[1])
        m == IntOf(bits[2])
        t == staging[last.out]
    IN  /\ last.out = StrOfNat(y) \o << "_" >> \o TwoDigits(m) \o << ".", "c", "s", "v" >>
        /\ Len(StrOfNat(y)) = 4 /\ m \in 1..12
        /\ t.cols[1] = DATE
        /\ \A i \in 1..Len(t.rows) :
             t.rows[i][1] = StrOfNat(y) \o << "-" >> \o TwoDigits(m) \o << "-", "0", "1" >>
        /\ \A yy \in {2023, 2024} : \A mm \in 1..12 :
             last.file = GenerateRawFilename([err |-> "", y |-> yy, m |-> mm])
               => (y = yy /\ m = mm)

\* a file named with a one-digit month, 2024_1_VW.xlsx, was written to
\* 2024_01.csv with its rows stamped 2024-01-01
C5_Witness ==
  /\ Wrote /\ last.file = RawLocalJan24
  /\ last.out = << "2", "0", "2", "4", "_", "0", "1", ".", "c", "s", "v" >>
  /\ Len(staging[last.out].rows) > 0
  /\ \A i \in 1..Len(staging[last.out].rows) :
       staging[last.out].rows[i][1]
         = << "2", "0", "2", "4", "-", "0", "1", "-", "0", "1" >>

----------------------------------------------------------------------------
\* C6: running the Normalizer on a raw file whose staging file was last
\* written by a run on this same file with this same content leaves the
\* staging directory exactly as it was: the same file with identical content,
\* and no other file.
C6_Idempotent ==
  [][\A f \in DOMAIN raw :
       (ProcessFile(f) /\ last'.again) =>
         /\ last'.out \in DOMAIN origin
         /\ origin[last'.out] = << f, raw[f] >>
         /\ staging' = staging]_vars

\* a raw file was normalized a second time, unchanged
C6_Witness == Wrote /\ last.again /\ Len(staging[last.out].rows) > 0

----------------------------------------------------------------------------
\* year * 12 + month of a row's date text "YYYY-MM-01"
C7_Month(t, row) ==
  LET d == Field(t, row, DATE)
  IN  IntOf(SubSeq(d, 1, 4)) * 12 + IntOf(SubSeq(d, 6, 7))

\* the rows of the named files one after another
RECURSIVE C7_RowsInOrder(_)
C7_RowsInOrder(files) ==
  IF Len(files) = 0 THEN << >>
  ELSE staging[files[1]].rows \o C7_RowsInOrder(Tail(files))

\* C7: after the Combiner has run, the master table is the rows of all
\* staging files taken in ascending file-name order, whatever order the
\* directory listing had, and its rows are in ascending order of date.
C7_CombinerOrdering ==
  comb.status = "done" =>
    /\ {comb.files[i] : i \in 1..Len(comb.files)} = DOMAIN staging
    /\ Len(comb.files) = Cardinality(DOMAIN staging)
    /\ \A i, j \in 1..Len(comb.files) : i < j => StrLess(comb.files[i], comb.files[j])
    /\ master.rows = C7_RowsInOrder(comb.files)
    /\ \A i, j \in 1..Len(master.rows) :
         i < j => C7_Month(master, master.rows[i]) <= C7_Month(master, master.rows[j])

\* the staging files listed as 2023_11, 2024_01, 2023_12 were combined as
\* November, December, January
C7_Witness ==
  /\ comb.status = "done"
  /\ comb.listing = << StagingFilename([y |-> 2023, m |-> 11]),
                       StagingFilename([y |-> 2024, m |-> 1]),
                       StagingFilename([y |-> 2023, m |-> 12]) >>
  /\ [i \in 1..Len(master.rows) |-> Field(master, master.rows[i], DATE)]
       = << DateCell([y |-> 2023, m |-> 11]).t, DateCell([y |-> 2023, m |-> 11]).t,
            DateCell([y |-> 2023, m |-> 12]).t, DateCell([y |-> 2023, m |-> 12]).t,
            DateCell([y |-> 2024, m |-> 1]).t >>

----------------------------------------------------------------------------
\* the raw file name a link's text stands for
NameOfLink(link) == GenerateRawFilename(ExtractDateFromText(link.text))

\* C8: download_file requests the link's target and writes the raw file if and
\* only if overwrite is set or no file of the derived name exists; otherwise
\* it makes no request and leaves the raw directory as it is.  So in a pass
\* with overwrite=False no link is fetched whose name an earlier link of the
\* pass already had.
C8_DownloadUnlessPresent ==
  /\ [][(DownloadFile /\ fetch'.status = "running") =>
          LET link == fetch.links[fetch.pc]
              name == NameOfLink(link)
          IN  IF fetch.overwrite \/ name \notin DOMAIN raw
              THEN /\ http' = Append(http, link.href)
                   /\ name \in DOMAIN raw'
                   /\ raw'[name] = Served(link.href)
                   /\ \A n \in DOMAIN raw \ {name} : n \in DOMAIN raw' /\ raw'[n] = raw[n]
              ELSE /\ http' = http
                   /\ raw' = raw]_vars
  /\ [](fetch.status # "idle" /\ ~fetch.overwrite =>
          \A i, j \in 1..(fetch.pc - 1) :
            (i < j /\ NameOfLink(fetch.links[i]) = NameOfLink(fetch.links[j])) =>
              \A h \in 1..Len(http) : http[h] # fetch.links[j].href)

\* in a pass with overwrite=False the first January link was fetched and the
\* second, of the same file name, was not
C8_Witness ==
  /\ fetch.status = "running" /\ ~fetch.overwrite
  /\ fetch.pc = 4
  /\ NameOfLink(fetch.links[2]) = NameOfLink(fetch.links[3])
  /\ http = << HrefNov23, HrefJan24 >>
  /\ raw[RawJan24] = "Jan24"

----------------------------------------------------------------------------
\* C9 (as claimed): the fetch command requests no link whose file the raw
\* directory already held when the command started.
C9_FetchSkipsPresentFiles ==
  fetch.main =>
    \A h \in 1..Len(http) : \A i \in 1..Len(fetch.links) :
      fetch.links[i].href = http[h] => NameOfLink(fetch.links[i]) \notin fetch.had

----------------------------------------------------------------------------
\* C10 (as claimed): once every dispatched callback has returned, the map
\* shows the selected metric at the slider's date.
C10_MapShowsSelection ==
  Settled => mapFig = [col |-> dropdown, date |-> dates[slider + 1]]

----------------------------------------------------------------------------
\* C11 (as claimed): once every dispatched callback has returned, the time
\* series is that of the clicked region (the default region when none was
\* clicked) for the selected metric.
C11_TimeSeriesShowsSelection ==
  Settled =>
    tsFig = [icb |-> IF clickData = None THEN DefaultIcb ELSE clickData,
             col |-> dropdown]

----------------------------------------------------------------------------
\* the date text "YYYY-MM-01" of the rows of the staging file "YYYY_MM.csv"
C12_DateOf(n) == SubSeq(n, 1, 4) \o << "-" >> \o SubSeq(n, 6, 7) \o << "-", "0", "1" >>

\* the rows of the master table that carry a date, in order
C12_MasterRowsOf(d) ==
  LET Is(i) == Field(master, master.rows[i], DATE) = d
  IN  SelectIdx(master.rows, Is, 1)

\* C12 (as claimed): after fetch, normalize-all and combine, then a fetch that
\* downloads a month again, normalize-all again and combine again, the master
\* table holds more rows of that month than its staging file does.
C12_RerunDuplicatesMonth ==
  (cycle.phase = 6 /\ comb.status = "done") =>
    \A n \in cycle.redone :
      Len(C12_MasterRowsOf(C12_DateOf(n))) > Len(staging[n].rows)

\* C12 (amended): whenever the Combiner has run, and so also after a month was
\* downloaded, normalized and combined a second time, the master table holds
\* for every staging file exactly that file's rows under its date, each once;
\* and the month downloaded again has the one raw file and the one staging
\* file it had before.
C12_RerunReplacesMonth ==
  /\ comb.status = "done" =>
       \A n \in DOMAIN staging : C12_MasterRowsOf(C12_DateOf(n)) = staging[n].rows
  /\ cycle.again \subseteq DOMAIN raw
  /\ \A n \in cycle.redone :
       /\ n \in DOMAIN staging
       /\ \A k \in DOMAIN staging : C12_DateOf(k) = C12_DateOf(n) => k = n

\* November 2023 was fetched, normalized and combined, then again, and the
\* master table holds its two regions once each
C12_Witness ==
  /\ cycle.phase = 6 /\ comb.status = "done"
  /\ RawNov23 \in cycle.again
  /\ StagingFilename([y |-> 2023, m |-> 11]) \in cycle.redone
  /\ Len(staging[StagingFilename([y |-> 2023, m |-> 11])].rows) = 2
  /\ Len(C12_MasterRowsOf(DateCell([y |-> 2023, m |-> 11]).t)) = 2

----------------------------------------------------------------------------
\* what process_file does with a file of the raw directory
C13_Result(f) == ProcessTable[<< f, raw[f] >>]

\* the year and month get_date reads from each raw file name
C13_DateOf == [n \in RawNames |-> GetDate(n)] @@ << >>

\* C13 (as claimed): whatever names the raw directory holds, once
\* normalize-all has completed every staging file a task wrote holds what
\* this task wrote: no other task has written it.
C13_TasksShareNoStagingFile ==
  norm.status = "done" =>
    \A f \in DOMAIN raw :
      C13_Result(f).outcome = "written" =>
        staging[C13_Result(f).out] = C13_Result(f).table

\* C13 (amended): two tasks write the same staging file exactly when their raw
\* file names give the same year and month; once normalize-all has completed,
\* the staging file of a raw file whose year and month no other processed raw
\* file has holds what its task wrote, under every interleaving.
C13_DistinctMonthsShareNoFile ==
  /\ \A f, g \in DOMAIN raw :
       (C13_Result(f).outcome = "written" /\ C13_Result(g).outcome = "written") =>
         (C13_Result(f).out = C13_Result(g).out <=> C13_DateOf[f] = C13_DateOf[g])
  /\ norm.status = "done" =>
       \A f \in DOMAIN raw :
         (/\ C13_Result(f).outcome = "written"
          /\ \A g \in DOMAIN raw \ {f} :
               C13_Result(g).outcome = "written" => C13_DateOf[g] # C13_DateOf[f])
           => /\ staging[C13_Result(f).out] = C13_Result(f).table
              /\ origin[C13_Result(f).out] = << f, raw[f] >>

\* normalize-all has completed on the three fetched months, each written to
\* a staging file of its own
C13_Witness ==
  /\ norm.status = "done"
  /\ DOMAIN raw = {RawNov23, RawDec23, RawJan24}
  /\ \A f \in DOMAIN raw : C13_Result(f).outcome = "written"
  /\ \A f \in DOMAIN raw : origin[C13_Result(f).out] = << f, raw[f] >>
  /\ Cardinality(DOMAIN staging) = 3

----------------------------------------------------------------------------
\* C14: normalize-all never completes successfully when processing one of the
\* raw files raises: the command ends in failure, whether or not the other
\* files were processed; and a process_file call that raised is recorded as
\* raised, not as a skip.
C14_FailureNotIsolated ==
  /\ norm.status = "done" =>
       \A f \in DOMAIN raw : ProcessTable[<< f, raw[f] >>].err = ""
  /\ (norm.status \in {"done", "failed"} /\ norm.raised) => norm.status = "failed"
  /\ last.err # "" => (last.outcome = "raised" /\ norm.raised)

\* normalize-all ended in failure over report.xlsx, although 2024_1_VW.xlsx
\* was written to staging in the same run
C14_Witness ==
  /\ norm.status = "failed"
  /\ DOMAIN raw = {RawReport, RawLocalJan24}
  /\ ProcessTable[<< RawReport, raw[RawReport] >>].err = "ValueError"
  /\ StagingFilename([y |-> 2024, m |-> 1]) \in DOMAIN staging
  /\ origin[StagingFilename([y |-> 2024, m |-> 1])] = << RawLocalJan24, "Local" >>

----------------------------------------------------------------------------
\* the string forms of a sheet's last column, top to bottom
LastColumn(df) == [i \in 1..Len(df.rows) |-> df.rows[i][Len(df.rows[i])].t]

\* "text", "2", "3"
C15_Column == << << "t", "e", "x", "t" >>, << "2" >>, << "3" >> >>

\* C15 (as claimed): for a sheet whose last column is "text", "2", "3",
\* _index_header_row returns 1.
C15_HeaderRowIsOne ==
  (step # "loaded" /\ LastColumn(sheet) = C15_Column) =>
    (header_row.err = "" /\ header_row.row = 1)

\* C15 (amended): for a sheet whose last column is "text", "2", "3",
\* _index_header_row returns 0, the index of the row before the first value
\* whose string form starts with a digit; and for every sheet with such a
\* value it returns the index before the first of them.
C15_HeaderRowIsZero ==
  /\ (step # "loaded" /\ LastColumn(sheet) = C15_Column) =>
       (header_row.err = "" /\ header_row.row = 0)
  /\ (step # "loaded" /\ header_row.err = "") =>
       LET col == LastColumn(sheet)
           r == header_row.row + 2
       IN  /\ r \in 1..Len(col)
           /\ Len(col[r]) > 0 /\ col[r][1] \in {"0", "1", "2", "3", "4", "5", "6", "7", "8", "9"}
           /\ \A i \in 1..(r - 1) :
                ~(Len(col[i]) > 0 /\ col[i][1] \in {"0", "1", "2", "3", "4", "5", "6", "7", "8", "9"})

\* the two-column sheet with the last column "text", "2", "3" has been indexed
C15_Witness ==
  /\ step = "indexed"
  /\ LastColumn(sheet) = C15_Column
  /\ Len(sheet.cols) = 2
  /\ header_row = [err |-> "", row |-> 0]

----------------------------------------------------------------------------
\* C19 (as claimed): when the first cell of the last column that starts with
\* a digit is at row r (from 0), extraction succeeds, the data rows are the
\* sheet's rows r..end in their order, and for r > 0 the labels are row r - 1;
\* for r = 0 no numeric row is lost.
C19_KeepsRowsFromFirstNumeric ==
  (step = "extracted" /\ HasNumericRow(sheet)) =>
    LET r == FirstNumericRow(sheet)
    IN  /\ promoted.err = ""
        /\ promoted.df.rows = SubSeq(sheet.rows, r + 1, Len(sheet.rows))
        /\ r > 0 => promoted.df.cols = sheet.rows[r]

----------------------------------------------------------------------------
\* a text is all digits
C16_AllDigits(t) ==
  Len(t) > 0 /\ \A i \in 1..Len(t) : t[i] \in {"0", "1", "2", "3", "4", "5", "6", "7", "8", "9"}

\* the position of the first all-digit token of a text, 0 when it has none
C16_YearPosition(text) ==
  LET bits == SplitOn(text, " ")
  IN  IF \E i \in 1..Len(bits) : C16_AllDigits(bits[i])
      THEN CHOOSE i \in 1..Len(bits) :
             C16_AllDigits(bits[i]) /\ \A h \in 1..(i - 1) : ~C16_AllDigits(bits[h])
      ELSE 0

\* C16 (as claimed): every file the Fetcher requested in a pass comes from a
\* link whose text has a token before its first all-digit token, that token
\* is the month name, and the file is named for that year and month.
C16_MonthPrecedesYear ==
  \A h \in 1..Len(http) : \A i \in 1..Len(fetch.links) :
    fetch.links[i].href = http[h] =>
      LET bits == SplitOn(fetch.links[i].text, " ")
          j == C16_YearPosition(fetch.links[i].text)
      IN  /\ j > 1
          /\ MonthOfName(bits[j - 1]) \in 1..12
          /\ (bits[j] \o << "_" >> \o TwoDigits(MonthOfName(bits[j - 1])) \o MonthlySuffix)
               \in DOMAIN raw

----------------------------------------------------------------------------
----------------------------------------------------------------------------
\* no cell of a loaded sheet's last column has a string form starting with a digit
C18_NoNumericCell(df) ==
  \A i \in 1..Len(df.rows) :
    ~(Len(LastColumn(df)[i]) > 0
      /\ LastColumn(df)[i][1] \in {"0", "1", "2", "3", "4", "5", "6", "7", "8", "9"})

\* C18: process_file on a workbook whose sheet has no cell in the last column
\* starting with a digit raises IndexError; nothing is written to staging and
\* the error is passed on to the command.
C18_NoNumericCellRaises ==
  [][\A f \in DOMAIN raw :
       (/\ ProcessFile(f)
        /\ EndsWith(f, XlsxExt) /\ ~StartsWith(f, << "~" >>)
        /\ GetDate(f).err = ""
        /\ IsWorkbook(raw[f])
        /\ C18_NoNumericCell(ReadInRawFile(raw[f])))
       => /\ last'.outcome = "raised"
          /\ last'.err = "IndexError"
          /\ norm'.raised
          /\ staging' = staging
          /\ origin' = origin]_vars

\* the workbook without a numeric cell, fetched as December 2023, raised
\* IndexError and left no staging file
C18_Witness ==
  /\ last.file = RawDec23 /\ last.content = "NoNumeric"
  /\ last.outcome = "raised" /\ last.err = "IndexError"
  /\ StagingFilename([y |-> 2023, m |-> 12]) \notin DOMAIN staging
====
